---- MODULE Spec2Model ----
(***************************************************************************)
(* The natural-language task interpretation pipeline of the back end:      *)
(* AdvancedTaskCreationWorkflow and TaskCreationWorkflow (two model stages *)
(* with completion calls, rule-based conflict detection, the decision      *)
(* gate, the orchestrator's catch-all), and TasksService's use of the      *)
(* pipeline result (return the candidate or save and index it).            *)
(*                                                                         *)
(* Encoding.  A JSON value of a model response is a record                 *)
(* [k, n, s]: k is its JavaScript kind, n its number, s its string.        *)
(* Confidence numbers are in tenths (5 is 0.5); the thresholds 0.6 and     *)
(* 0.8 are 6 and 8.  The one wrong-typed value carried is a non-numeric    *)
(* string, for which JavaScript arithmetic yields NaN.                     *)
(***************************************************************************)
EXTENDS Integers, Sequences, FiniteSets, TLC

VARIABLES
  wf,        \* the workflow the request runs: "advanced" or "creation"
  input,     \* the request's input text
  pc,        \* where execute stands
  state,     \* the TaskCreationState of AdvancedTaskCreationWorkflow.execute
  locals,    \* extractedInfo and analysis of TaskCreationWorkflow.execute
  result,    \* what execute returned
  stages,    \* history: the stages entered, in order
  outcomes,  \* history: what each completion call of execute did, in order
  escaped,   \* history: the stage whose exception reached execute's catch
  svc,       \* where TasksService.createFromNaturalLanguage stands
  aiNeeds,   \* history: needsConfirmation of the aiResult the service got
  saved,     \* the tasks saved by the service, in order
  indexed,   \* the number of indexTask calls
  reply,     \* what the service returned to its caller
  parse,     \* history: the simple parse run in the service's catch block
  kw,        \* a text handed to the keyword fallbacks and what they returned
  auth,      \* the users AuthService reads and writes, and login's outcome
  bulk,      \* the tasks TasksService.bulkUpdate works on, and what it returned
  conv,      \* a call of ConversationalAIWorkflow.processMessage
  pair       \* two calls of execute in flight on one workflow instance

vars ==
  <<wf, input, pc, state, locals, result, stages, outcomes, escaped, svc,
    aiNeeds, saved, indexed, reply, parse, kw, auth, bulk, conv, pair>>

\* the variables of one createFromNaturalLanguage request
mainVars ==
  <<wf, input, pc, state, locals, result, stages, outcomes, escaped, svc,
    aiNeeds, saved, indexed, reply, parse>>

\* the variables of the other operations of the program
sideVars == <<kw, auth, bulk, conv, pair>>

\* an operation that no call has entered
Idle == [pc |-> "idle"]

wfVars == <<state, locals, result, stages, outcomes, escaped, pc>>

svcVars == <<svc, aiNeeds, saved, indexed, reply, parse>>

(***************************************************************************)
(* JSON values and the JavaScript operators the code applies to them       *)
(***************************************************************************)
Absent == [k |-> "absent", n |-> 0, s |-> ""]

NaN == [k |-> "nan", n |-> 0, s |-> ""]

Num(n) == [k |-> "num", n |-> n, s |-> ""]

Str(s) == [k |-> "str", n |-> 0, s |-> s]

\* an array of n elements
Arr(n) == [k |-> "array", n |-> n, s |-> ""]

\* JavaScript truthiness: undefined, 0, NaN and "" are falsy
Truthy(v) ==
  CASE v.k = "absent" -> FALSE
    [] v.k = "nan" -> FALSE
    [] v.k = "num" -> v.n # 0
    [] v.k = "str" -> v.s # ""
    [] OTHER -> TRUE

\* a || d
OrElse(v, d) == IF Truthy(v) THEN v ELSE d

\* a < t for a number t: false for NaN, undefined and a non-numeric string
Lt(v, t) == v.k = "num" /\ v.n < t

\* a >= t, a > t
Ge(v, t) == v.k = "num" /\ v.n >= t

Gt(v, t) == v.k = "num" /\ v.n > t

\* Math.min(a + b, 1.0) in tenths; a non-numeric operand makes the sum a
\* string or NaN, and Math.min of that is NaN
MinSumOne(a, b) ==
  IF a.k = "num" /\ b.k = "num"
  THEN Num(IF a.n + b.n < 10 THEN a.n + b.n ELSE 10)
  ELSE NaN

\* Math.min(c, 1.0) of a number
MinOne(c) == IF c < 10 THEN c ELSE 10

\* v.length of a string or an array; undefined (Absent) on a number
LengthOf(v) ==
  CASE v.k = "str" -> Num(Len(v.s))
    [] v.k = "array" -> Num(v.n)
    [] OTHER -> Absent

(***************************************************************************)
(* Strings                                                                 *)
(***************************************************************************)
UpperChars == "ABCDEFGHIJKLMNOPQRSTUVWXYZ"

LowerChars == "abcdefghijklmnopqrstuvwxyz"

LowerChar(c) ==
  IF \E i \in 1..Len(UpperChars) : SubSeq(UpperChars, i, i) = c
  THEN LET i == CHOOSE j \in 1..Len(UpperChars) : SubSeq(UpperChars, j, j) = c
       IN  SubSeq(LowerChars, i, i)
  ELSE c

RECURSIVE ToLowerCase(_)
ToLowerCase(s) ==
  IF s = "" THEN ""
  ELSE LowerChar(SubSeq(s, 1, 1)) \o ToLowerCase(SubSeq(s, 2, Len(s)))

\* s.includes(k)
Includes(s, k) ==
  \E i \in 1..(Len(s) - Len(k) + 1) : SubSeq(s, i, i + Len(k) - 1) = k

TitleLimit == 50

\* input.length > 50 ? input.slice(0, 50) + "..." : input
TruncateTitle(s) ==
  IF Len(s) > TitleLimit THEN SubSeq(s, 1, TitleLimit) \o "..." ELSE s

RECURSIVE Repeat(_, _)
Repeat(c, n) == IF n = 0 THEN "" ELSE c \o Repeat(c, n - 1)

(***************************************************************************)
(* Bounds of the model and the inputs drawn within them                    *)
(***************************************************************************)
\* the longest input is TitleLimit + MaxOver characters long
MaxOver == 1

\* the largest confidence a response reports, in tenths (12 is 1.2)
MaxReportedConf == 12

\* the largest complexity a response reports
MaxComplexity == 5

Inputs ==
  { "", "urgent fix #bug", Repeat("x", TitleLimit),
    Repeat("x", TitleLimit + MaxOver) }

UserId == "u1"

\* a confidence as a response may carry it: missing, a number inside or
\* outside [0,1], or a string
ConfValues ==
  { Absent, Str("high"), Num(-5), Num(2), Num(MaxReportedConf) }

ComplexityValues == { Absent } \cup { Num(n) : n \in 3..MaxComplexity }

DurationValues == { Absent, Num(240), Num(241) }

\* urgencyKeywords / urgencyIndicators: missing, an array, or a bare string
UrgencyValues == { Absent, Arr(1), Str("asap") }

DueDateValues == { Absent, Str("2025-01-31") }

PriorityValues ==
  { Absent, Str("urgent"), Str("URGENT"), Str("high"), Str("low"), Num(1) }

\* the object parseJSON returns for "{}" and for text it cannot parse
EmptyInfo ==
  [ title |-> Absent, description |-> Absent, dueDate |-> Absent,
    tags |-> Absent, complexity |-> Absent, estimatedDuration |-> Absent,
    urgency |-> Absent, confidence |-> Absent ]

EmptyAnalysis == [ priority |-> Absent, confidence |-> Absent ]

\* JSON objects an extraction response may hold, for the advanced workflow
AdvancedExtractionObjects ==
  { [ EmptyInfo EXCEPT !.title = t, !.dueDate = d, !.complexity = c,
                       !.estimatedDuration = e, !.urgency = u,
                       !.confidence = f ] :
      t \in { Absent, Str("Fix"), Num(7) }, d \in DueDateValues,
      c \in ComplexityValues, e \in DurationValues, u \in UrgencyValues,
      f \in ConfValues }

AnalysisObjects ==
  { [ priority |-> p, confidence |-> f ] :
      p \in PriorityValues, f \in ConfValues }

\* what one completion call can do: raise, return text without a JSON
\* object (prose, or nothing at all), or return text holding the object obj
Raised == [ kind |-> "error" ]

Prose == [ kind |-> "prose" ]

Json(obj) == [ kind |-> "json", obj |-> obj ]

AdvancedExtractionResponses ==
  { Raised, Prose } \cup { Json(o) : o \in AdvancedExtractionObjects }

AnalysisResponses == { Raised, Prose } \cup { Json(o) : o \in AnalysisObjects }

(***************************************************************************)
(* Helpers shared by the workflows                                         *)
(***************************************************************************)
\* parseJSON: the object of the first "{" to the last "}" when it decodes,
\* and {} otherwise; it catches its own errors.  empty is {} in the shape
\* of the stage's object.
ParseJSON(resp, empty) == IF resp.kind = "json" THEN resp.obj ELSE empty

\* x?.join(", ") inside a prompt template: a TypeError when x is neither
\* missing nor an array
JoinThrows(x) == x.k \notin { "absent", "array" }

\* mapPriority: priority?.toLowerCase() is a TypeError on a non-string
MapPriorityThrows(p) == p.k \notin { "absent", "str" }

MapPriority(p) ==
  IF p.k # "str" THEN "medium"
  ELSE LET l == ToLowerCase(p.s)
       IN  IF l \in { "urgent", "high", "low" } THEN l ELSE "medium"

\* a basic task that keeps the whole input as its title
AdvancedBasicTaskUntruncated(in) ==
  [ title |-> Str(in), description |-> Str(in),
    priority |-> "medium", tags |-> Arr(0), estimatedDuration |-> Num(30),
    dueDate |-> Absent, complexity |-> Absent, metaConfidence |-> Num(3),
    fallback |-> TRUE ]

\* createBasicTask of AdvancedTaskCreationWorkflow
AdvancedBasicTask(in) ==
  [ title |-> Str(TruncateTitle(in)), description |-> Str(in),
    priority |-> "medium", tags |-> Arr(0), estimatedDuration |-> Num(30),
    dueDate |-> Absent, complexity |-> Absent, metaConfidence |-> Num(3),
    fallback |-> TRUE ]

\* new Date(x)
ToDate(v) == [ k |-> "date", n |-> 0, s |-> v.s ]

NoTask ==
  [ title |-> Absent, description |-> Absent, priority |-> "none",
    tags |-> Absent, estimatedDuration |-> Absent, dueDate |-> Absent,
    complexity |-> Absent, metaConfidence |-> Absent, fallback |-> FALSE ]

NoResult ==
  [ task |-> NoTask, needsConfirmation |-> FALSE, suggestions |-> <<>>,
    conflicts |-> <<>>, confidence |-> Absent, workflowPath |-> "none" ]

\* what a stage hands back to execute: its value, or an exception
Returns(v) == [ threw |-> FALSE, value |-> v ]

Throws == [ threw |-> TRUE ]

(***************************************************************************)
(* AdvancedTaskCreationWorkflow                                            *)
(***************************************************************************)
\* an initial state already labelled finalized
InitialStateFinalized(in) ==
  [ input |-> in, userId |-> UserId, extractedInfo |-> EmptyInfo,
    priorityAnalysis |-> EmptyAnalysis, needsHumanReview |-> FALSE,
    conflicts |-> <<>>, suggestions |-> <<>>, finalTask |-> NoTask,
    confidence |-> Num(0), currentStep |-> "finalized" ]

InitialState(in) ==
  [ input |-> in, userId |-> UserId, extractedInfo |-> EmptyInfo,
    priorityAnalysis |-> EmptyAnalysis, needsHumanReview |-> FALSE,
    conflicts |-> <<>>, suggestions |-> <<>>, finalTask |-> NoTask,
    confidence |-> Num(0), currentStep |-> "starting" ]

ExtractInformation(st, resp) ==
  IF resp.kind = "error"
  THEN Returns([ st EXCEPT
         !.extractedInfo = [ EmptyInfo EXCEPT !.title = Str(st.input),
                                              !.confidence = Num(2),
                                              !.complexity = Num(2),
                                              !.estimatedDuration = Num(30) ],
         !.confidence = Num(2),
         !.currentStep = "extraction_failed" ])
  ELSE LET extractedInfo == ParseJSON(resp, EmptyInfo)
       IN  Returns([ st EXCEPT
             !.extractedInfo = extractedInfo,
             !.confidence = OrElse(extractedInfo.confidence, Num(5)),
             !.currentStep = "information_extracted" ])

\* the prompt of analyzePriority is built before its try block
AnalyzePriorityPromptThrows(st) == JoinThrows(st.extractedInfo.urgency)

AnalyzePriority(st, resp) ==
  IF AnalyzePriorityPromptThrows(st) THEN Throws
  ELSE IF resp.kind = "error"
  THEN Returns([ st EXCEPT
         !.priorityAnalysis = [ priority |-> Str("medium"),
                                confidence |-> Num(3) ],
         !.currentStep = "priority_analysis_failed" ])
  ELSE LET priorityAnalysis == ParseJSON(resp, EmptyAnalysis)
       IN  Returns([ st EXCEPT
             !.priorityAnalysis = priorityAnalysis,
             !.confidence =
                MinSumOne(st.confidence,
                          OrElse(priorityAnalysis.confidence, Num(3))),
             !.currentStep = "priority_analyzed" ])

\* a complexity signal graded medium
ComplexitySignalMedium == [ type |-> "complexity", severity |-> "medium" ]

ComplexitySignal == [ type |-> "complexity", severity |-> "high" ]

DurationSignal == [ type |-> "duration", severity |-> "medium" ]

\* a mismatch signal graded medium
MismatchSignalMedium ==
  [ type |-> "priority_complexity_mismatch", severity |-> "medium" ]

MismatchSignal == [ type |-> "priority_complexity_mismatch", severity |-> "high" ]

DetectConflicts(st) ==
  LET info == st.extractedInfo
      c1 == Ge(info.complexity, 4)
      c2 == Gt(info.estimatedDuration, 240)
      c3 == st.priorityAnalysis.priority = Str("urgent") /\ Ge(info.complexity, 4)
      conflicts ==
        (IF c1 THEN << ComplexitySignal >> ELSE <<>>)
        \o (IF c2 THEN << DurationSignal >> ELSE <<>>)
        \o (IF c3 THEN << MismatchSignal >> ELSE <<>>)
      suggestions ==
        st.suggestions
        \o (IF c1 THEN << "split into several steps" >> ELSE <<>>)
        \o (IF c2 THEN << "schedule adjustment may be needed" >> ELSE <<>>)
        \o (IF c3 THEN << "secure resources or reduce scope" >> ELSE <<>>)
  IN  Returns([ st EXCEPT !.conflicts = conflicts,
                          !.suggestions = suggestions,
                          !.currentStep = "conflicts_detected" ])

\* a floor that leaves out the confidence just below 0.6
AdvancedBelowFloorLax(c) == Lt(c, 5)

\* the confidence floor of validateAndFinalize
AdvancedBelowFloor(c) == Lt(c, 6)

\* the stricter bar for urgent tasks
AdvancedUrgentBar(p, c) == p = Str("urgent") /\ Lt(c, 8)

\* a scan for a severity no rule emits
HasCriticalSeverity(conflicts) ==
  \E i \in 1..Len(conflicts) : conflicts[i].severity = "critical"

HasHighSeverity(conflicts) ==
  \E i \in 1..Len(conflicts) : conflicts[i].severity = "high"

ValidateAndFinalize(st) ==
  LET info == st.extractedInfo
      pa == st.priorityAnalysis
      low == AdvancedBelowFloor(st.confidence)
      urgent == AdvancedUrgentBar(pa.priority, st.confidence)
      noDue == pa.priority = Str("high") /\ ~Truthy(info.dueDate)
      risky == HasHighSeverity(st.conflicts)
      suggestions ==
        st.suggestions
        \o (IF low THEN << "write the task more specifically" >> ELSE <<>>)
        \o (IF urgent THEN << "urgent task: check the content again" >> ELSE <<>>)
        \o (IF noDue THEN << "important task: set a due date" >> ELSE <<>>)
        \o (IF risky THEN << "high risk detected: review needed" >> ELSE <<>>)
      finalTask ==
        [ title |-> OrElse(info.title, Str(st.input)),
          description |-> info.description,
          priority |-> MapPriority(OrElse(pa.priority, Str("medium"))),
          estimatedDuration |-> OrElse(info.estimatedDuration, Num(30)),
          tags |-> OrElse(info.tags, Arr(0)),
          dueDate |-> IF Truthy(info.dueDate) THEN ToDate(info.dueDate) ELSE Absent,
          complexity |-> info.complexity,
          metaConfidence |-> st.confidence,
          fallback |-> FALSE ]
  IN  IF MapPriorityThrows(OrElse(pa.priority, Str("medium"))) THEN Throws
      ELSE Returns([ st EXCEPT !.finalTask = finalTask,
                               !.needsHumanReview = low \/ urgent \/ risky,
                               !.suggestions = suggestions,
                               !.currentStep = "finalized" ])

\* a result that leaves the state's suggestions behind
AdvancedResultNoSuggestions(st) ==
  [ task |-> st.finalTask, needsConfirmation |-> st.needsHumanReview,
    suggestions |-> <<>>, conflicts |-> st.conflicts,
    confidence |-> st.confidence, workflowPath |-> st.currentStep ]

\* the result execute builds from the finalized state
AdvancedResult(st) ==
  [ task |-> st.finalTask, needsConfirmation |-> st.needsHumanReview,
    suggestions |-> st.suggestions, conflicts |-> st.conflicts,
    confidence |-> st.confidence, workflowPath |-> st.currentStep ]

\* a catch block that lets the exception go on to the caller
AdvancedCaughtRethrows(in) == [ pc |-> "threw", result |-> NoResult ]

\* the catch block of execute
AdvancedCaught(in) ==
  [ pc |-> "returned",
    result |-> [ task |-> AdvancedBasicTask(in), needsConfirmation |-> TRUE,
                 suggestions |-> << "an error occurred: check the content again" >>,
                 conflicts |-> <<>>, confidence |-> Num(3),
                 workflowPath |-> "error" ] ]

(***************************************************************************)
(* TaskCreationWorkflow                                                    *)
(***************************************************************************)
\* JSON objects an extraction response may hold, for TaskCreationWorkflow
CreationExtractionObjects ==
  { [ EmptyInfo EXCEPT !.title = t, !.description = s, !.dueDate = d,
                       !.tags = g, !.complexity = c,
                       !.estimatedDuration = e, !.urgency = u ] :
      t \in { Absent, Str("Fix"), Str("Prepare urgent report"), Num(7) },
      s \in { Absent, Str("a detailed description") },
      d \in DueDateValues, g \in { Absent, Arr(2) },
      c \in { Absent, Num(MaxComplexity) }, e \in DurationValues,
      u \in UrgencyValues }

CreationExtractionResponses ==
  { Raised, Prose } \cup { Json(o) : o \in CreationExtractionObjects }

Digits == "0123456789"

\* the decimal digits of a natural number
RECURSIVE Decimal(_)
Decimal(n) ==
  IF n < 10 THEN SubSeq(Digits, n + 1, n + 1)
  ELSE Decimal(n \div 10) \o SubSeq(Digits, (n % 10) + 1, (n % 10) + 1)

\* String(v) as string concatenation converts it
StringOf(v) ==
  CASE v.k = "str" -> v.s
    [] v.k = "absent" -> "undefined"
    [] v.k = "num" -> Decimal(v.n)
    [] OTHER -> ""

CalculateExtractionConfidence(info) ==
  LET a == IF Truthy(info.title) /\ Gt(LengthOf(info.title), 5) THEN 2 ELSE 0
      b == IF Truthy(info.description) /\ Gt(LengthOf(info.description), 10)
           THEN 1 ELSE 0
      c == IF Truthy(info.dueDate) THEN 1 ELSE 0
      d == IF Truthy(info.tags) /\ Gt(LengthOf(info.tags), 0) THEN 1 ELSE 0
  IN  Num(MinOne(5 + a + b + c + d))

FallbackExtraction(in) ==
  [ EmptyInfo EXCEPT
      !.title = Str(TruncateTitle(in)),
      !.description = IF Len(in) > 100 THEN Str(in) ELSE Absent,
      !.tags = Arr(0), !.urgency = Arr(0), !.complexity = Num(2),
      !.estimatedDuration = Num(30), !.confidence = Num(3) ]

ExtractDetailedInformation(in, resp) ==
  IF resp.kind = "error" THEN Returns(FallbackExtraction(in))
  ELSE LET r == ParseJSON(resp, EmptyInfo)
       IN  Returns([ r EXCEPT !.confidence = CalculateExtractionConfidence(r) ])

\* the keyword scan; the source also looks for three Korean keywords, which
\* no text of this model contains
FallbackPriorityAnalysis(info) ==
  LET text == ToLowerCase(StringOf(info.title) \o " "
                          \o StringOf(OrElse(info.description, Str(""))))
      priority ==
        IF Includes(text, "urgent") \/ Includes(text, "asap") THEN "urgent"
        ELSE IF Includes(text, "important") \/ Includes(text, "critical")
        THEN "high"
        ELSE IF Includes(text, "later") \/ Includes(text, "when possible")
        THEN "low"
        ELSE "medium"
  IN  [ priority |-> Str(priority), confidence |-> Num(5) ]

\* the prompt of analyzeTaskComplexity is built before its try block
AnalyzeTaskComplexityPromptThrows(info) == JoinThrows(info.urgency)

AnalyzeTaskComplexity(info, resp) ==
  IF AnalyzeTaskComplexityPromptThrows(info) THEN Throws
  ELSE IF resp.kind = "error" THEN Returns(FallbackPriorityAnalysis(info))
  ELSE Returns(ParseJSON(resp, EmptyAnalysis))

ResourceConflict == [ type |-> "resource", severity |-> "none" ]

\* the confidence floor of validateAndSuggest
CreationBelowFloor(c) == Lt(c, 6)

\* the stricter bar for urgent tasks
CreationUrgentBar(p, c) == p = Str("urgent") /\ Lt(c, 8)

ValidateAndSuggest(info, analysis) ==
  LET overallConfidence ==
        MinSumOne(OrElse(info.confidence, Num(5)),
                  OrElse(analysis.confidence, Num(5)))
      low == CreationBelowFloor(overallConfidence)
      urgent == CreationUrgentBar(analysis.priority, overallConfidence)
      noDue == analysis.priority = Str("high") /\ ~Truthy(info.dueDate)
      complex == Ge(info.complexity, 4)
      long == Gt(info.estimatedDuration, 240)
      suggestions ==
        (IF low THEN << "write the task more specifically" >> ELSE <<>>)
        \o (IF urgent THEN << "urgent task: check the content again" >> ELSE <<>>)
        \o (IF noDue THEN << "important task: set a due date" >> ELSE <<>>)
        \o (IF complex THEN << "complex task: consider subtasks" >> ELSE <<>>)
      finalTask ==
        [ title |-> info.title,
          description |-> info.description,
          dueDate |-> IF Truthy(info.dueDate) THEN ToDate(info.dueDate) ELSE Absent,
          priority |-> MapPriority(analysis.priority),
          tags |-> OrElse(info.tags, Arr(0)),
          estimatedDuration |-> OrElse(info.estimatedDuration, Num(30)),
          complexity |-> info.complexity,
          metaConfidence |-> overallConfidence,
          fallback |-> FALSE ]
  IN  IF MapPriorityThrows(analysis.priority) THEN Throws
      ELSE Returns([ task |-> finalTask,
                     needsConfirmation |-> low \/ urgent \/ long,
                     suggestions |-> suggestions,
                     conflicts |-> IF long THEN << ResourceConflict >> ELSE <<>>,
                     confidence |-> overallConfidence,
                     workflowPath |-> "none" ])

\* a basic task whose metadata carries another confidence than the result
CreationBasicTaskHalf(in) ==
  [ title |-> Str(TruncateTitle(in)), description |-> Str(in),
    priority |-> "medium", tags |-> Arr(0), estimatedDuration |-> Num(30),
    dueDate |-> Absent, complexity |-> Absent, metaConfidence |-> Num(5),
    fallback |-> TRUE ]

\* createBasicTask of TaskCreationWorkflow
CreationBasicTask(in) ==
  [ title |-> Str(TruncateTitle(in)), description |-> Str(in),
    priority |-> "medium", tags |-> Arr(0), estimatedDuration |-> Num(30),
    dueDate |-> Absent, complexity |-> Absent, metaConfidence |-> Num(3),
    fallback |-> TRUE ]

\* the catch block of execute
CreationCaught(in) ==
  [ pc |-> "returned",
    result |-> [ task |-> CreationBasicTask(in), needsConfirmation |-> TRUE,
                 suggestions |-> << "an error occurred: check the content again" >>,
                 conflicts |-> <<>>, confidence |-> Num(3),
                 workflowPath |-> "none" ] ]

NoLocals == [ extractedInfo |-> EmptyInfo, analysis |-> EmptyAnalysis ]


(***************************************************************************)
(* SimpleTaskWorkflow and AiService.parseNaturalLanguageTask, the parse    *)
(* the service falls back to                                               *)
(***************************************************************************)
WordChars == LowerChars \o UpperChars \o Digits \o "_"

\* \w
IsWordChar(c) == Includes(WordChars, c)

\* the last position of the run of word characters that starts at i
RECURSIVE WordRunEnd(_, _)
WordRunEnd(s, i) ==
  IF i < Len(s) /\ IsWordChar(SubSeq(s, i + 1, i + 1))
  THEN WordRunEnd(s, i + 1) ELSE i

\* [...input.matchAll(/#(\w+)/g)].map(match => match[1]), from position i
RECURSIVE HashTagsFrom(_, _)
HashTagsFrom(s, i) ==
  IF i >= Len(s) THEN <<>>
  ELSE IF SubSeq(s, i, i) = "#" /\ IsWordChar(SubSeq(s, i + 1, i + 1))
  THEN LET j == WordRunEnd(s, i + 1)
       IN  << SubSeq(s, i + 1, j) >> \o HashTagsFrom(s, j + 1)
  ELSE HashTagsFrom(s, i + 1)

HashTags(s) == HashTagsFrom(s, 1)

\* the date strings new Date() can parse
ValidDates == { "2025-01-31" }

SimpleExtractionObjects ==
  { [ EmptyInfo EXCEPT !.title = t, !.dueDate = d, !.confidence = f ] :
      t \in { Absent, Str("Fix") },
      d \in { Absent, Str("2025-01-31"), Str("soon") },
      f \in { Absent, Num(2) } }

SimpleExtractionResponses ==
  { Raised, Prose } \cup { Json(o) : o \in SimpleExtractionObjects }

SimpleAnalysisResponses ==
  { Raised, Prose }
  \cup { Json([ priority |-> p, confidence |-> f ]) :
           p \in { Absent, Str("urgent"), Num(1) }, f \in { Absent, Num(2) } }

\* extractBasicInfo (the entities it collects are carried by no record here)
ExtractBasicInfo(in) ==
  [ EmptyInfo EXCEPT
      !.title = Str(TruncateTitle(in)),
      !.description = IF Len(in) > 100 THEN Str(in) ELSE Absent,
      !.tags = Arr(Len(HashTags(in))),
      !.estimatedDuration = Num(30), !.confidence = Num(5) ]

SimpleExtractInformation(in, resp) ==
  IF resp.kind = "error" THEN ExtractBasicInfo(in)
  ELSE ParseJSON(resp, EmptyInfo)

AnyIncluded(text, keywords) == \E k \in keywords : Includes(text, k)

\* analyzePriorityKeywords with the high keywords tried before the urgent ones
AnalyzePriorityKeywordsHighFirst(text) ==
  LET lowerText == ToLowerCase(text)
      priority ==
        IF AnyIncluded(lowerText,
                       { "important", "must", "need to", "required" })
        THEN "high"
        ELSE IF AnyIncluded(lowerText,
                            { "urgent", "asap", "emergency", "critical" })
        THEN "urgent"
        ELSE IF AnyIncluded(lowerText,
                            { "when possible", "eventually", "sometime" })
        THEN "low"
        ELSE "medium"
  IN  [ priority |-> Str(priority), confidence |-> Num(6) ]

\* analyzePriorityKeywords; each list of the source also holds three Korean
\* keywords, which no text of this model contains
AnalyzePriorityKeywords(text) ==
  LET lowerText == ToLowerCase(text)
      priority ==
        IF AnyIncluded(lowerText, { "urgent", "asap", "emergency", "critical" })
        THEN "urgent"
        ELSE IF AnyIncluded(lowerText,
                            { "important", "must", "need to", "required" })
        THEN "high"
        ELSE IF AnyIncluded(lowerText,
                            { "when possible", "eventually", "sometime" })
        THEN "low"
        ELSE "medium"
  IN  [ priority |-> Str(priority), confidence |-> Num(6) ]

SimpleAnalyzePriority(in, resp) ==
  IF resp.kind = "error" THEN AnalyzePriorityKeywords(in)
  ELSE ParseJSON(resp, EmptyAnalysis)

\* createFallbackResult
CreateFallbackResult(in) ==
  [ title |-> Str(TruncateTitle(in)), description |-> Absent,
    dueDate |-> Absent, priority |-> "medium", tags |-> Arr(0),
    estimatedDuration |-> Num(30), confidence |-> Num(3) ]

\* the extraction confidence finalizeResult adds up
SimpleExtractionConfidence(info) == OrElse(info.confidence, Num(7))

\* finalizeResult; toISOString() of an invalid date raises inside its own try
FinalizeResult(info, pri, in) ==
  [ title |-> OrElse(info.title,
                     Str(SubSeq(in, 1, IF Len(in) < TitleLimit THEN Len(in)
                                       ELSE TitleLimit))),
    description |-> info.description,
    dueDate |-> IF Truthy(info.dueDate) /\ info.dueDate.s \in ValidDates
                THEN info.dueDate ELSE Absent,
    priority |-> MapPriority(OrElse(pri.priority, Str("medium"))),
    tags |-> OrElse(info.tags, Arr(0)),
    estimatedDuration |-> OrElse(info.estimatedDuration, Num(30)),
    confidence |-> MinSumOne(SimpleExtractionConfidence(info),
                             OrElse(pri.confidence, Num(7))) ]

\* SimpleTaskWorkflow.execute with the responses of its two calls
SimpleExecute(in, r1, r2) ==
  LET info == SimpleExtractInformation(in, r1)
      pri == SimpleAnalyzePriority(in, r2)
  IN  IF MapPriorityThrows(OrElse(pri.priority, Str("medium")))
      THEN CreateFallbackResult(in)
      ELSE FinalizeResult(info, pri, in)

\* AiService.parseNaturalLanguageTask: SimpleTaskWorkflow.execute does not
\* throw, so the LangChain parse behind its catch is never taken
ParseNaturalLanguageTask(in, r1, r2) ==
  LET w == SimpleExecute(in, r1, r2)
  IN  [ w EXCEPT !.dueDate = IF Truthy(w.dueDate) THEN ToDate(w.dueDate)
                             ELSE Absent ]

(***************************************************************************)
(* AiService.createTaskFromNaturalLanguage and                             *)
(* TasksService.createFromNaturalLanguage                                  *)
(***************************************************************************)
\* the aiResult built in the catch block of AiService
AiResultFromParse(parsed) ==
  [ task |-> [ title |-> parsed.title, description |-> parsed.description,
               priority |-> parsed.priority, tags |-> parsed.tags,
               estimatedDuration |-> parsed.estimatedDuration,
               dueDate |-> parsed.dueDate, complexity |-> Absent,
               metaConfidence |-> parsed.confidence, fallback |-> FALSE ],
    needsConfirmation |-> Lt(parsed.confidence, 6),
    suggestions |-> IF Lt(parsed.confidence, 6)
                    THEN << "enter the task more specifically" >> ELSE <<>> ]

\* an aiResult that drops the needsConfirmation flag of execute's result
CreateTaskFromNaturalLanguageUnflagged(threw, res, parsed) ==
  IF threw THEN AiResultFromParse(parsed)
  ELSE [ task |-> res.task, needsConfirmation |-> FALSE,
         suggestions |-> res.suggestions ]

\* the aiResult: the fields of execute's result, or the parse when execute threw
CreateTaskFromNaturalLanguage(threw, res, parsed) ==
  IF threw THEN AiResultFromParse(parsed)
  ELSE [ task |-> res.task, needsConfirmation |-> res.needsConfirmation,
         suggestions |-> res.suggestions ]

\* save() rejects a document whose required title is missing or empty
SaveThrows(title) == title.k = "absent" \/ title = Str("")

NoReply == [ kind |-> "none" ]

Candidate(task, suggestions) ==
  [ kind |-> "candidate", task |-> task, needsConfirmation |-> TRUE,
    suggestions |-> suggestions ]

SavedTask(title, priority, via) ==
  [ kind |-> "task", title |-> title, priority |-> priority, via |-> via ]

Exception == [ kind |-> "exception" ]

\* no simple parse has run
NoParse == [ calls |-> <<>>, extractedInfo |-> EmptyInfo ]


(***************************************************************************)
(* The run of one request                                                  *)
(***************************************************************************)
Init ==
  /\ wf \in { "advanced", "creation" }
  /\ input \in Inputs
  /\ pc = "start"
  /\ state = InitialState(input)
  /\ locals = NoLocals
  /\ result = NoResult
  /\ stages = <<>>
  /\ outcomes = <<>>
  /\ escaped = "none"
  /\ svc = "idle"
  /\ aiNeeds = "none"
  /\ saved = <<>>
  /\ indexed = 0
  /\ reply = NoReply
  /\ parse = NoParse
  /\ kw = Idle
  /\ auth = Idle
  /\ bulk = Idle
  /\ conv = Idle
  /\ pair = Idle

\* a stage of AdvancedTaskCreationWorkflow.execute has ended with outcome o:
\* go on to pc value next, or take the catch block
AdvancedStep(name, o, next, called) ==
  /\ stages' = Append(stages, name)
  /\ outcomes' = outcomes \o called
  /\ escaped' = IF o.threw THEN name ELSE escaped
  /\ UNCHANGED <<wf, input, locals>>
  /\ UNCHANGED svcVars
  /\ UNCHANGED sideVars
  /\ IF o.threw
     THEN /\ pc' = AdvancedCaught(input).pc
          /\ result' = AdvancedCaught(input).result
          /\ UNCHANGED state
     ELSE /\ pc' = next
          /\ state' = o.value
          /\ result' = IF next = "returned" THEN AdvancedResult(o.value) ELSE result

\* an extraction stage that runs once more after a first failed call
AdvExtractRetrying ==
  /\ wf = "advanced" /\ pc = "start"
  /\ \E resp \in AdvancedExtractionResponses :
       AdvancedStep("extract", ExtractInformation(state, resp),
                    IF resp.kind = "error" /\ outcomes = <<>>
                    THEN "start" ELSE "extracted",
                    << resp.kind >>)

AdvExtract ==
  /\ wf = "advanced" /\ pc = "start"
  /\ \E resp \in AdvancedExtractionResponses :
       AdvancedStep("extract", ExtractInformation(state, resp), "extracted",
                    << resp.kind >>)

\* a priority stage that may start before the extraction has run
AdvAnalyzeEarly ==
  /\ wf = "advanced" /\ pc \in { "start", "extracted" }
  /\ \E resp \in AnalysisResponses :
       AdvancedStep("analyze", AnalyzePriority(state, resp), "prioritized",
                    IF AnalyzePriorityPromptThrows(state) THEN <<>>
                    ELSE << resp.kind >>)

AdvAnalyze ==
  /\ wf = "advanced" /\ pc = "extracted"
  /\ \E resp \in AnalysisResponses :
       AdvancedStep("analyze", AnalyzePriority(state, resp), "prioritized",
                    IF AnalyzePriorityPromptThrows(state) THEN <<>>
                    ELSE << resp.kind >>)

\* a detection stage that issues a completion call
AdvDetectCalling ==
  /\ wf = "advanced" /\ pc = "prioritized"
  /\ AdvancedStep("detect", DetectConflicts(state), "checked", << "json" >>)

AdvDetect ==
  /\ wf = "advanced" /\ pc = "prioritized"
  /\ AdvancedStep("detect", DetectConflicts(state), "checked", <<>>)

AdvFinalize ==
  /\ wf = "advanced" /\ pc = "checked"
  /\ AdvancedStep("finalize", ValidateAndFinalize(state), "returned", <<>>)

\* a stage of TaskCreationWorkflow.execute has ended with outcome o
\* (its locals go out of scope when it returns)
CreationStep(name, o, next, called) ==
  /\ stages' = Append(stages, name)
  /\ outcomes' = outcomes \o called
  /\ escaped' = IF o.threw THEN name ELSE escaped
  /\ UNCHANGED <<wf, input, state>>
  /\ UNCHANGED svcVars
  /\ UNCHANGED sideVars
  /\ IF o.threw
     THEN /\ pc' = CreationCaught(input).pc
          /\ result' = CreationCaught(input).result
          /\ locals' = NoLocals
     ELSE /\ pc' = next
          /\ locals' = CASE name = "extract" -> [ locals EXCEPT !.extractedInfo = o.value ]
                          [] name = "analyze" -> [ locals EXCEPT !.analysis = o.value ]
                          [] OTHER -> NoLocals
          /\ result' = IF next = "returned" THEN o.value ELSE result

CreExtract ==
  /\ wf = "creation" /\ pc = "start"
  /\ \E resp \in CreationExtractionResponses :
       CreationStep("extract", ExtractDetailedInformation(input, resp),
                    "extracted", << resp.kind >>)

CreAnalyze ==
  /\ wf = "creation" /\ pc = "extracted"
  /\ \E resp \in AnalysisResponses :
       CreationStep("analyze",
                    AnalyzeTaskComplexity(locals.extractedInfo, resp),
                    "prioritized",
                    IF AnalyzeTaskComplexityPromptThrows(locals.extractedInfo)
                    THEN <<>> ELSE << resp.kind >>)

CreValidate ==
  /\ wf = "creation" /\ pc = "prioritized"
  /\ CreationStep("finalize",
                  ValidateAndSuggest(locals.extractedInfo, locals.analysis),
                  "returned", <<>>)

\* the responses the parse behind AiService's catch would get
AiCatchChoices ==
  IF pc = "threw" THEN SimpleExtractionResponses \X SimpleAnalysisResponses
  ELSE { << Prose, Prose >> }

\* the aiResult TasksService gets once execute has ended
AiResult(rs) ==
  CreateTaskFromNaturalLanguage(pc = "threw", result,
                                ParseNaturalLanguageTask(input, rs[1], rs[2]))

\* needsConfirmation of the pipeline result behind the aiResult
FlagOf(rs) ==
  IF pc = "threw"
  THEN IF AiResultFromParse(ParseNaturalLanguageTask(input, rs[1], rs[2])).needsConfirmation
       THEN "yes" ELSE "no"
  ELSE IF result.needsConfirmation THEN "yes" ELSE "no"

\* createFromNaturalLanguage: the aiResult asks for confirmation
SvcReturnCandidate ==
  /\ wf = "creation" /\ pc \in { "returned", "threw" } /\ svc = "idle"
  /\ \E rs \in AiCatchChoices :
       /\ AiResult(rs).needsConfirmation
       /\ reply' = Candidate(AiResult(rs).task, AiResult(rs).suggestions)
       /\ aiNeeds' = FlagOf(rs)
  /\ svc' = "done"
  /\ UNCHANGED <<wf, input, saved, indexed, parse>>
  /\ UNCHANGED wfVars
  /\ UNCHANGED sideVars

\* createFromNaturalLanguage: the aiResult is confident; save() and
\* indexTask() succeed
SvcSave ==
  /\ wf = "creation" /\ pc \in { "returned", "threw" } /\ svc = "idle"
  /\ \E rs \in AiCatchChoices :
       /\ ~AiResult(rs).needsConfirmation
       /\ ~SaveThrows(AiResult(rs).task.title)
       /\ saved' = Append(saved, SavedTask(AiResult(rs).task.title,
                                           AiResult(rs).task.priority,
                                           "pipeline"))
       /\ aiNeeds' = FlagOf(rs)
  /\ indexed' = indexed + 1
  /\ reply' = saved'[Len(saved')]
  /\ svc' = "done"
  /\ UNCHANGED <<wf, input, parse>>
  /\ UNCHANGED wfVars
  /\ UNCHANGED sideVars

\* createFromNaturalLanguage: save() raises (the document is invalid or the
\* store fails); control enters the catch block, where aiResult is out of scope
SvcSaveFails ==
  /\ wf = "creation" /\ pc \in { "returned", "threw" } /\ svc = "idle"
  /\ \E rs \in AiCatchChoices :
       /\ ~AiResult(rs).needsConfirmation
       /\ aiNeeds' = FlagOf(rs)
  /\ svc' = "catch"
  /\ result' = NoResult
  /\ UNCHANGED <<wf, input, saved, indexed, reply, parse>>
  /\ UNCHANGED <<state, locals, stages, outcomes, escaped, pc>>
  /\ UNCHANGED sideVars

\* the catch block of createFromNaturalLanguage: the simple parse, then
\* return the candidate, save, or let save()'s exception reach the caller
SvcFallback ==
  /\ svc = "catch"
  /\ \E r1 \in SimpleExtractionResponses, r2 \in SimpleAnalysisResponses,
        dbOk \in BOOLEAN :
       LET parsedData == ParseNaturalLanguageTask(input, r1, r2)
       IN  /\ parse' = [ calls |-> << r1.kind, r2.kind >>,
                         extractedInfo |-> SimpleExtractInformation(input, r1) ]
           /\ IF Lt(parsedData.confidence, 6)
              THEN /\ reply' = Candidate(parsedData,
                                         << "enter the task more specifically",
                                            "state a due date or a priority" >>)
                   /\ svc' = "done"
                   /\ UNCHANGED <<saved, indexed>>
              ELSE IF parsedData.priority = "urgent" /\ Lt(parsedData.confidence, 8)
              THEN /\ reply' = Candidate(parsedData,
                                         << "urgent task: check once more",
                                            "make the due date and owner clear" >>)
                   /\ svc' = "done"
                   /\ UNCHANGED <<saved, indexed>>
              ELSE IF dbOk /\ ~SaveThrows(parsedData.title)
              THEN /\ saved' = Append(saved, SavedTask(parsedData.title,
                                                       parsedData.priority,
                                                       "fallback"))
                   /\ indexed' = indexed + 1
                   /\ reply' = saved'[Len(saved')]
                   /\ svc' = "done"
              ELSE /\ reply' = Exception
                   /\ svc' = "threw"
                   /\ UNCHANGED <<saved, indexed>>
  /\ UNCHANGED <<wf, input, aiNeeds>>
  /\ UNCHANGED wfVars
  /\ UNCHANGED sideVars

Next ==
  \/ AdvExtract \/ AdvAnalyze \/ AdvDetect \/ AdvFinalize
  \/ CreExtract \/ CreAnalyze \/ CreValidate
  \/ SvcReturnCandidate \/ SvcSave \/ SvcSaveFails \/ SvcFallback

Spec == Init /\ [][Next]_vars

(***************************************************************************)
(* Properties                                                              *)
(***************************************************************************)
ErrorMessage == "an error occurred: check the content again"

InSeq(x, s) == \E i \in 1..Len(s) : s[i] = x

\* execute has returned a result its decision gate produced
Finalized == pc = "returned" /\ result # NoResult /\ ~result.task.fallback

\* execute has returned the result of its catch block
Degraded == pc = "returned" /\ result # NoResult /\ result.task.fallback

\* C1: execute of either workflow never throws: whatever each completion
\* call does, no exception reaches the caller, and what execute returns is
\* a result record.
C1_ExecuteNeverThrows ==
  /\ pc # "threw"
  /\ (pc = "returned" /\ svc = "idle") =>
       /\ result.task # NoTask
       /\ result.needsConfirmation \in BOOLEAN

\* C1 witness: a stage raised (a TypeError of finalize or of the priority
\* prompt) and execute still returned, after a call that returned prose.
C1_Witness ==
  /\ Degraded /\ escaped = "finalize" /\ InSeq("prose", outcomes)

\* C2: for a non-empty input, the task of the returned result has a title
\* that is neither undefined nor the empty string.
C2_TitleNeverEmpty ==
  (pc = "returned" /\ svc = "idle" /\ input # "") =>
     /\ result.task.title.k # "absent"
     /\ result.task.title # Str("")

\* C3: the confidence of the pipeline state after each stage, and the
\* confidence of the returned result, are within [0,1] (stated of the
\* confidences that are numbers: a response that reports a string instead
\* is not held against the claim).
C3_ConfidenceInUnitInterval ==
  /\ state.confidence.k = "num" => state.confidence.n \in 0..10
  /\ (pc = "returned" /\ svc = "idle" /\ result.confidence.k = "num") =>
       result.confidence.n \in 0..10

\* C4: in every returned result, finalized or degraded, a confidence below
\* 0.6 comes with needsConfirmation = true.
C4_ConfirmationFloor ==
  (pc = "returned" /\ result # NoResult /\ Lt(result.confidence, 6)) =>
     result.needsConfirmation

\* C4 witness: a finalized result below the floor that no other rule would
\* flag: priority low, no conflict.
C4_Witness ==
  /\ Finalized /\ Lt(result.confidence, 6) /\ result.needsConfirmation
  /\ result.task.priority = "low" /\ result.conflicts = <<>>

\* C5: a finalized result whose task.priority is urgent and whose
\* confidence is in [0.6, 0.8) has needsConfirmation = true.
C5_UrgentStricterBar ==
  (Finalized /\ result.task.priority = "urgent"
     /\ Ge(result.confidence, 6) /\ Lt(result.confidence, 8)) =>
     result.needsConfirmation

\* C6: a finalized result whose conflicts hold a signal of severity high
\* has needsConfirmation = true; and a run of the advanced workflow with
\* complexity 5 and priority "urgent" ends with the mismatch signal of
\* severity high and needsConfirmation = true.
C6_HighRiskForcesConfirmation ==
  /\ (Finalized /\ HasHighSeverity(result.conflicts)) =>
        result.needsConfirmation
  /\ (Finalized /\ wf = "advanced"
        /\ state.extractedInfo.complexity = Num(5)
        /\ state.priorityAnalysis.priority = Str("urgent")) =>
        /\ InSeq([ type |-> "priority_complexity_mismatch",
                   severity |-> "high" ], result.conflicts)
        /\ result.needsConfirmation

\* C6 witness: complexity 5, priority urgent, confidence 1.0, and still
\* needsConfirmation.
C6_Witness ==
  /\ Finalized /\ wf = "advanced"
  /\ state.extractedInfo.complexity = Num(5)
  /\ state.priorityAnalysis.priority = Str("urgent")
  /\ result.confidence = Num(10)
  /\ result.needsConfirmation

\* C7: when every completion call of a run raised, execute returns the
\* degraded result: title the truncated input, confidence 0.3,
\* needsConfirmation, and the error message among the suggestions.
C7_OutageGivesDegraded ==
  (pc = "returned" /\ svc = "idle" /\ outcomes # <<>>
     /\ \A i \in 1..Len(outcomes) : outcomes[i] = "error") =>
     /\ result.task.title = Str(TruncateTitle(input))
     /\ result.confidence = Num(3)
     /\ result.needsConfirmation
     /\ InSeq(ErrorMessage, result.suggestions)

\* C8: in TaskCreationWorkflow, when a completion call raised or returned
\* text that is no JSON, the result has needsConfirmation = true, a
\* confidence below 0.6 and at least one suggestion.
C8_FailureIsCommunicated ==
  (wf = "creation" /\ pc = "returned" /\ svc = "idle"
     /\ \E i \in 1..Len(outcomes) : outcomes[i] \in { "error", "prose" }) =>
     /\ result.needsConfirmation
     /\ Lt(result.confidence, 6)
     /\ result.suggestions # <<>>

\* C9: createFromNaturalLanguage saves only on a pipeline result with
\* needsConfirmation = false; on one with needsConfirmation = true it
\* returns the candidate task with its suggestions, and saves and indexes
\* nothing in that request.
C9_SavesOnlyConfident ==
  /\ (saved # <<>> \/ indexed > 0) => aiNeeds = "no"
  /\ aiNeeds = "yes" =>
       /\ svc = "done" /\ saved = <<>> /\ indexed = 0
       /\ reply = [ kind |-> "candidate", task |-> result.task,
                    needsConfirmation |-> TRUE,
                    suggestions |-> result.suggestions ]
  /\ (wf = "creation" /\ pc = "returned" /\ result.needsConfirmation) =>
       (saved = <<>> /\ indexed = 0)

\* C9 witness: the service got a result that asks for confirmation and
\* returned the candidate.
C9_Witness ==
  /\ aiNeeds = "yes" /\ svc = "done" /\ reply.kind = "candidate"
  /\ Finalized /\ result.suggestions # <<>>

\* C10: when an exception escapes a stage, no later stage runs and the
\* result is the degraded one: the title is the input cut to 50 characters
\* (with "..." when it was longer), priority medium, no tags,
\* needsConfirmation, confidence 0.3, the error message as the only
\* suggestion, and nothing of the partial state.
C10_EscapeGivesDegraded ==
  escaped # "none" =>
    /\ pc = "returned"
    /\ stages[Len(stages)] = escaped
    /\ result.task.title =
         Str(IF Len(input) > 50 THEN SubSeq(input, 1, 50) \o "..." ELSE input)
    /\ result.task.description = Str(input)
    /\ result.task.priority = "medium"
    /\ result.task.tags = Arr(0)
    /\ result.task.estimatedDuration = Num(30)
    /\ result.task.dueDate = Absent
    /\ result.task.complexity = Absent
    /\ result.needsConfirmation
    /\ result.confidence = Num(3)
    /\ result.suggestions = << ErrorMessage >>
    /\ result.conflicts = <<>>

\* C10 witness: the priority stage raised on an input longer than 50
\* characters after an extraction that had found a title.
C10_Witness ==
  /\ escaped = "analyze" /\ Len(input) > 50
  /\ wf = "advanced" /\ Truthy(state.extractedInfo.title)
  /\ Len(result.task.title.s) = 53

\* C11: when the extraction of the advanced workflow yields no title (its
\* call raised, its text was no JSON, or its JSON holds no title), the title
\* of the returned task is the input cut to 50 characters, with "..."
\* appended when it was longer.
C11_TitleDerivedByTruncation ==
  (wf = "advanced" /\ pc = "returned" /\ outcomes # <<>>
     /\ \/ outcomes[1] \in { "error", "prose" }
        \/ ~Truthy(state.extractedInfo.title)) =>
     result.task.title = Str(TruncateTitle(input))

\* C12: needsConfirmation is true only when the confidence is below 0.6,
\* or the level is urgent and the confidence below 0.8, or a signal of
\* severity high is among the conflicts; and a run that ends with
\* confidence 1.0, priority high, a due date and no complexity of 4 or
\* more has needsConfirmation = false.
C12_ConfirmationOnlyWhenRequired ==
  /\ (pc = "returned" /\ svc = "idle" /\ result.needsConfirmation) =>
       \/ Lt(result.confidence, 6)
       \/ result.task.priority = "urgent" /\ Lt(result.confidence, 8)
       \/ HasHighSeverity(result.conflicts)
  /\ (Finalized /\ svc = "idle" /\ result.confidence = Num(10)
        /\ result.task.priority = "high" /\ Truthy(result.task.dueDate)
        /\ ~Ge(result.task.complexity, 4)) =>
       ~result.needsConfirmation

\* C13: the confidence of a finalized result of the advanced workflow is
\* min(extraction confidence + assessment confidence, 1.0), the assessment
\* confidence being the one of the priorityAnalysis the state holds,
\* whether the model or the stage's fallback produced it (stated of
\* confidences that are numbers).
C13_AggregateIsCappedSum ==
  (Finalized /\ wf = "advanced"
     /\ state.extractedInfo.confidence.k = "num"
     /\ state.priorityAnalysis.confidence.k = "num") =>
     result.confidence = MinSumOne(state.extractedInfo.confidence,
                                   state.priorityAnalysis.confidence)

\* C14: in each model stage a completion that cannot be parsed as JSON
\* leaves the stage's output exactly as a failed completion call would,
\* record and confidence, and the stage of the call raises nothing.
C14_FailureHandledAsParseFailure ==
  [][ (Len(outcomes') > Len(outcomes)
         /\ outcomes'[Len(outcomes')] \in { "error", "prose" }) =>
        /\ escaped' = "none"
        /\ wf = "advanced" /\ pc = "start" =>
             state' = ExtractInformation(state, Raised).value
        /\ wf = "advanced" /\ pc = "extracted" =>
             state' = AnalyzePriority(state, Raised).value
        /\ wf = "creation" /\ pc = "start" =>
             locals'.extractedInfo =
               ExtractDetailedInformation(input, Raised).value
        /\ wf = "creation" /\ pc = "extracted" =>
             locals'.analysis =
               AnalyzeTaskComplexity(locals.extractedInfo, Raised).value
    ]_vars

\* the fallback range of the extraction confidence: 0.2 to 0.5
InFallbackRange(c) == c.k = "num" /\ c.n \in 2..5

\* C15: when the extraction completion is prose, the extraction stage does
\* not raise, and the extraction confidence that enters the aggregate is
\* within [0.2, 0.5]: in the advanced workflow, in TaskCreationWorkflow,
\* and in the simple workflow the service's catch block runs.
C15_ProseExtractionInFallbackRange ==
  /\ (outcomes # <<>> /\ outcomes[1] = "prose") => escaped # "extract"
  /\ (wf = "advanced" /\ pc = "extracted" /\ outcomes = << "prose" >>) =>
       InFallbackRange(state.confidence)
  /\ (wf = "creation" /\ pc = "extracted" /\ outcomes = << "prose" >>) =>
       InFallbackRange(OrElse(locals.extractedInfo.confidence, Num(5)))
  /\ (parse.calls # <<>> /\ parse.calls[1] = "prose") =>
       InFallbackRange(SimpleExtractionConfidence(parse.extractedInfo))

\* C16: after detectConflicts the conflicts are exactly the signals whose
\* rule holds, in check order: complexity >= 4 gives complexity/high,
\* estimatedDuration > 240 gives duration/medium, priority "urgent" with
\* complexity >= 4 gives priority_complexity_mismatch/high.
C16_DetectConflictsExact ==
  (wf = "advanced" /\ InSeq("detect", stages)) =>
     LET c == state.extractedInfo.complexity
         d == state.extractedInfo.estimatedDuration
         complex == c.k = "num" /\ c.n >= 4
         long == d.k = "num" /\ d.n > 240
         urgent == state.priorityAnalysis.priority = Str("urgent")
     IN  state.conflicts =
           (IF complex
            THEN << [ type |-> "complexity", severity |-> "high" ] >>
            ELSE <<>>)
           \o (IF long
               THEN << [ type |-> "duration", severity |-> "medium" ] >>
               ELSE <<>>)
           \o (IF urgent /\ complex
               THEN << [ type |-> "priority_complexity_mismatch",
                         severity |-> "high" ] >>
               ELSE <<>>)

\* C16 witness: all three rules held and three signals were emitted.
C16_Witness ==
  /\ wf = "advanced" /\ pc = "checked" /\ Len(state.conflicts) = 3
  /\ state.conflicts[2].type = "duration"

\* the stage order of the workflow of the run
StageOrder ==
  IF wf = "advanced" THEN << "extract", "analyze", "detect", "finalize" >>
  ELSE << "extract", "analyze", "finalize" >>

\* the currentStep values that show the stage before the n+1-th has ended
StepsBefore(n) ==
  CASE n = 0 -> { "starting" }
    [] n = 1 -> { "information_extracted", "extraction_failed" }
    [] n = 2 -> { "priority_analyzed", "priority_analysis_failed" }
    [] OTHER -> { "conflicts_detected" }

\* C17: the stages of a run are entered one at a time in the order extract,
\* analyze priority, detect conflicts, finalize, each only once the stage
\* before it has handed over its output; the priority call is issued only
\* after the extraction call has returned or failed.
C17_StagesStrictlyInOrder ==
  [][ stages' # stages =>
        /\ Len(stages) < Len(StageOrder)
        /\ stages' = SubSeq(StageOrder, 1, Len(stages) + 1)
        /\ wf = "advanced" => state.currentStep \in StepsBefore(Len(stages))
        /\ (outcomes' # outcomes /\ Len(outcomes') = 2) =>
             (Len(outcomes) = 1 /\ stages = << "extract" >>)
    ]_vars

\* C17 witness: a run that went through all four stages.
C17_Witness ==
  /\ pc = "returned" /\ outcomes = << "json", "prose" >>
  /\ stages = << "extract", "analyze", "detect", "finalize" >>

\* C18: a run issues at most one completion call per model stage and at
\* most two in all, enters no stage twice, and once an exception has taken
\* it to the degraded result it runs no further stage and issues no call.
C18_NoRetry ==
  [][ /\ Len(outcomes') <= Len(outcomes) + 1
      /\ Len(outcomes') <= 2
      /\ outcomes' # outcomes =>
           (stages' # stages
              /\ stages'[Len(stages')] \in { "extract", "analyze" })
      /\ stages' # stages => ~InSeq(stages'[Len(stages')], stages)
      /\ escaped # "none" =>
           (stages' = stages /\ outcomes' = outcomes /\ pc' = pc)
    ]_vars

\* C18 witness: both calls failed, and the run ended with two calls made.
C18_Witness ==
  /\ pc = "returned" /\ outcomes = << "error", "error" >>
  /\ Len(stages) = Len(StageOrder)

IsPrefix(s, t) == Len(s) <= Len(t) /\ SubSeq(t, 1, Len(s)) = s

C20_FinalizerTotalWithDefaults ==
  /\ escaped # "finalize"
  /\ (Finalized /\ wf = "advanced") =>
       /\ state.priorityAnalysis.priority = Absent =>
            result.task.priority = "medium"
       /\ state.extractedInfo.estimatedDuration = Absent =>
            result.task.estimatedDuration = Num(30)
       /\ state.extractedInfo.tags = Absent => result.task.tags = Arr(0)

\* the step labels a run may hold once n stages have returned
LabelAfter(n) ==
  CASE n = 0 -> { "starting" }
    [] n = 1 -> { "information_extracted", "extraction_failed" }
    [] n = 2 -> { "priority_analyzed", "priority_analysis_failed" }
    [] n = 3 -> { "conflicts_detected" }
    [] OTHER -> { "finalized" }

\* C22: the step label of a run of the advanced workflow moves only from
\* the label of one stage to a label of the next, never skipping or
\* revisiting one; after a stage has returned it is a label of that stage;
\* and a run ends finalized with workflowPath finalized, or, when a stage
\* raised, with workflowPath error.
C22_StepLabelAdvances ==
  [][ wf = "advanced" =>
        /\ state'.currentStep # state.currentStep =>
             \E n \in 0..3 : /\ state.currentStep \in LabelAfter(n)
                             /\ state'.currentStep \in LabelAfter(n + 1)
        /\ (stages' # stages /\ escaped' = "none") =>
             state'.currentStep \in LabelAfter(Len(stages'))
        /\ (pc' = "returned" /\ pc # "returned") =>
             IF escaped' = "none"
             THEN /\ result'.workflowPath = "finalized"
                  /\ state'.currentStep = "finalized"
             ELSE /\ result'.workflowPath = "error"
                  /\ state'.currentStep = state.currentStep
    ]_vars

\* C22 witness: the finalizer raised after three stages had returned, and
\* the run ended in the error state.
C22_Witness ==
  /\ wf = "advanced" /\ pc = "returned" /\ result.workflowPath = "error"
  /\ state.currentStep = "conflicts_detected"

\* C23: no stage changes the input text or the userId; detectConflicts
\* issues no completion call and changes nothing of the state but the
\* conflicts, the suggestions (by appending) and the step label.
C23_DetectConflictsFrame ==
  [][ /\ input' = input
      /\ state'.input = state.input /\ state'.userId = state.userId
      /\ (wf = "advanced" /\ pc = "prioritized" /\ stages' # stages) =>
           /\ outcomes' = outcomes
           /\ escaped' = "none"
           /\ IsPrefix(state.suggestions, state'.suggestions)
           /\ state'.currentStep = "conflicts_detected"
           /\ state' = [ state EXCEPT !.conflicts = state'.conflicts,
                                      !.suggestions = state'.suggestions,
                                      !.currentStep = state'.currentStep ]
           /\ state' = DetectConflicts(state).value
    ]_vars

\* C23 witness: detection ran on a state of confidence 1.0 and set
\* conflicts and suggestions.
C23_Witness ==
  /\ wf = "advanced" /\ pc = "checked" /\ state.conflicts # <<>>
  /\ Len(state.suggestions) = 2 /\ state.confidence = Num(10)
  /\ Len(outcomes) = 2

\* C26: in the advanced workflow a run whose extracted complexity is 4 or
\* more ends with needsConfirmation = true, whatever its confidence and
\* priority, and with a high-severity signal when it finalized.
C26_ComplexityForcesConfirmation ==
  (wf = "advanced" /\ pc = "returned"
     /\ Ge(state.extractedInfo.complexity, 4)) =>
     /\ result.needsConfirmation
     /\ Finalized => HasHighSeverity(result.conflicts)

\* C26 witness: complexity 4, confidence 1.0, priority low, and the result
\* still asks for confirmation.
C26_Witness ==
  /\ Finalized /\ wf = "advanced"
  /\ state.extractedInfo.complexity = Num(4)
  /\ result.confidence = Num(10) /\ result.task.priority = "low"
  /\ result.needsConfirmation

\* C30: in every returned result of either workflow, finalized or
\* degraded, the confidence in the task's metadata is the result's
\* confidence.
C30_MetadataConfidenceMatches ==
  (pc = "returned" /\ result # NoResult) =>
     result.task.metaConfidence = result.confidence

\* C30 witness: a finalized result of TaskCreationWorkflow with an
\* aggregate of 0.7 in both places.
C30_Witness ==
  /\ Finalized /\ wf = "creation" /\ result.confidence = Num(7)
  /\ result.task.metaConfidence = Num(7)

\* C24: when the extraction call fails, the tags extracted by the heuristic
\* fallback are exactly the words that follow a '#' in the input (here for
\* TaskCreationWorkflow.fallbackExtraction, which the code gives no tags)
C24_FallbackTagsAreHashWords ==
  (wf = "creation" /\ pc = "extracted" /\ outcomes = << "error" >>) =>
     locals.extractedInfo.tags = Arr(Len(HashTags(input)))

\* ---------------------------------------------------------------------
\* The keyword fallbacks of the priority stage, applied to texts built
\* from marker words

\* no createFromNaturalLanguage request is in flight
MainIdle ==
  /\ wf = "advanced"
  /\ input = ""
  /\ pc = "start"
  /\ state = InitialState("")
  /\ locals = NoLocals
  /\ result = NoResult
  /\ stages = <<>>
  /\ outcomes = <<>>
  /\ escaped = "none"
  /\ svc = "idle"
  /\ aiNeeds = "none"
  /\ saved = <<>>
  /\ indexed = 0
  /\ reply = NoReply
  /\ parse = NoParse

\* the longest text, in words
MaxWords == 2

\* words of the texts: markers of the three buckets of either function, in
\* either case, and a word that is no marker
KwWords ==
  { "urgent", "ASAP", "critical", "Important", "later", "when possible",
    "eventually", "call" }

\* the keyword lists of analyzePriorityKeywords (without the Korean keywords)
SimpleUrgentKeywords == { "urgent", "asap", "emergency", "critical" }
SimpleHighKeywords == { "important", "must", "need to", "required" }
SimpleLowKeywords == { "when possible", "eventually", "sometime" }

\* the keywords of fallbackPriorityAnalysis (without the Korean keywords)
CreationUrgentKeywords == { "urgent", "asap" }
CreationHighKeywords == { "important", "critical" }
CreationLowKeywords == { "later", "when possible" }

RECURSIVE JoinWords(_)
\* the words of ws, separated by single spaces
JoinWords(ws) ==
  IF ws = <<>> THEN ""
  ELSE IF Len(ws) = 1 THEN ws[1]
  ELSE ws[1] \o " " \o JoinWords(Tail(ws))

KwTexts == UNION { [1..n -> KwWords] : n \in 0..MaxWords }

\* the info handed to fallbackPriorityAnalysis: the first word is the
\* title, the other words the description
KwInfo(ws) ==
  [ EmptyInfo EXCEPT
      !.title = IF ws = <<>> THEN Str("") ELSE Str(ws[1]),
      !.description = IF Len(ws) > 1 THEN Str(JoinWords(Tail(ws)))
                      ELSE Absent ]

InitKw ==
  /\ MainIdle
  /\ kw \in { [ pc |-> "ready", words |-> ws, simple |-> "none",
                creation |-> "none" ] : ws \in KwTexts }
  /\ auth = Idle
  /\ bulk = Idle
  /\ conv = Idle
  /\ pair = Idle

\* SimpleTaskWorkflow.analyzePriorityKeywords(text)
KwSimple ==
  /\ kw.pc = "ready" /\ kw.simple = "none"
  /\ kw' = [ kw EXCEPT
               !.simple = AnalyzePriorityKeywords(JoinWords(kw.words)).priority.s ]
  /\ UNCHANGED <<mainVars, auth, bulk, conv, pair>>

\* TaskCreationWorkflow.fallbackPriorityAnalysis(info)
KwCreation ==
  /\ kw.pc = "ready" /\ kw.creation = "none"
  /\ kw' = [ kw EXCEPT
               !.creation = FallbackPriorityAnalysis(KwInfo(kw.words)).priority.s ]
  /\ UNCHANGED <<mainVars, auth, bulk, conv, pair>>

NextKw == KwSimple \/ KwCreation

SpecKw == InitKw /\ [][NextKw]_vars

\* the lower-case words of a text
KwLower(ws) == { ToLowerCase(ws[i]) : i \in 1..Len(ws) }

\* the bucket the claim names for words ws under the keyword lists u, h, l
KwBucket(ws, u, h, l) ==
  IF KwLower(ws) \cap u # {} THEN "urgent"
  ELSE IF KwLower(ws) \cap h # {} THEN "high"
  ELSE IF KwLower(ws) \cap l # {} THEN "low"
  ELSE "medium"

MaxLogins == 3

AuthEmails == { "ann@x", "bob@x", "eve@x" }
AuthPasswords == { "pw1", "pw2", "pw3" }

\* bcrypt.hash(password, 10): only a comparison relates a hash to a password
BcryptHash(password) == [ hashOf |-> password ]

\* the users collections: ann and bob are registered with some passwords,
\* eve is not registered
AuthUsers ==
  { [ e \in { "ann@x", "bob@x" } |->
        [ password |-> BcryptHash(pw[e]), lastLoginAt |-> 0 ] ] :
      pw \in [ { "ann@x", "bob@x" } -> AuthPasswords ] }

\* bcrypt.compare(data, hash) called without a callback: a Promise of the
\* comparison's outcome
BcryptCompare(data, hash) ==
  [ k |-> "promise", n |-> 0, s |-> "", resolvesTo |-> hash.hashOf = data ]

LoginDtos == [ email : AuthEmails, password : AuthPasswords ]

NoLoginDto == [ email |-> "", password |-> "" ]

Unauthorized == [ kind |-> "UnauthorizedException", sub |-> "" ]

InitAuth ==
  /\ MainIdle
  /\ auth \in { [ pc |-> "ready", users |-> us, now |-> 0,
                  loginDto |-> NoLoginDto,
                  reply |-> [ kind |-> "none", sub |-> "" ] ] :
                us \in AuthUsers }
  /\ kw = Idle
  /\ bulk = Idle
  /\ conv = Idle
  /\ pair = Idle

\* login(loginDto), called at time now + 1
Login(loginDto) ==
  /\ auth.pc = "ready" /\ auth.now < MaxLogins
  /\ LET now == auth.now + 1
         found == loginDto.email \in DOMAIN auth.users
     IN  IF ~found
         THEN auth' = [ auth EXCEPT !.now = now, !.loginDto = loginDto,
                                    !.reply = Unauthorized ]
         ELSE LET user == auth.users[loginDto.email]
                  isPasswordValid ==
                    BcryptCompare(loginDto.password, user.password)
              IN  IF ~Truthy(isPasswordValid)
                  THEN auth' = [ auth EXCEPT !.now = now,
                                             !.loginDto = loginDto,
                                             !.reply = Unauthorized ]
                  ELSE auth' =
                         [ auth EXCEPT
                             !.now = now,
                             !.loginDto = loginDto,
                             !.users[loginDto.email].lastLoginAt = now,
                             !.reply = [ kind |-> "access_token",
                                         sub |-> loginDto.email ] ]
  /\ UNCHANGED <<mainVars, kw, bulk, conv, pair>>

NextAuth == \E loginDto \in LoginDtos : Login(loginDto)

SpecAuth == InitAuth /\ [][NextAuth]_vars

\* C27: login returns an access token only when the supplied password
\* matches the stored hash of the user with the given email
C27_TokenOnlyForMatchingPassword ==
  (auth.pc = "ready" /\ auth.reply.kind = "access_token") =>
     /\ auth.loginDto.email \in DOMAIN auth.users
     /\ auth.users[auth.loginDto.email].password
          = BcryptHash(auth.loginDto.password)

\* ---------------------------------------------------------------------
\* TasksService.bulkUpdate

BulkTaskIds == { "t1", "t2", "t3" }
BulkUserIds == { "u1", "u2" }
BulkStatuses == { "in_progress", "done" }

\* the tasks collections: every task belongs to some user and is still to do
BulkTasks ==
  { [ id \in BulkTaskIds |-> [ userId |-> owner[id], status |-> "todo" ] ] :
      owner \in [ BulkTaskIds -> BulkUserIds ] }

InitBulk ==
  /\ MainIdle
  /\ bulk \in { [ pc |-> "ready", tasks |-> ts, taskIds |-> {},
                  userId |-> "", returned |-> {} ] : ts \in BulkTasks }
  /\ kw = Idle
  /\ auth = Idle
  /\ conv = Idle
  /\ pair = Idle

\* updateMany({ _id: { $in: objectIds }, userId }, updateData)
UpdateMany(tasks, objectIds, userId, updateData) ==
  [ id \in DOMAIN tasks |->
      IF id \in objectIds /\ tasks[id].userId = userId
      THEN [ tasks[id] EXCEPT !.status = updateData ]
      ELSE tasks[id] ]

\* find({ _id: { $in: objectIds } }): the ids of the tasks found
FindIn(tasks, objectIds) == { id \in DOMAIN tasks : id \in objectIds }

\* bulkUpdate(taskIds, updateData, userId)
BulkUpdate(taskIds, updateData, userId) ==
  /\ bulk.pc = "ready"
  /\ LET objectIds == taskIds
         updated == UpdateMany(bulk.tasks, objectIds, userId, updateData)
     IN  bulk' = [ pc |-> "returned", tasks |-> updated,
                   taskIds |-> taskIds, userId |-> userId,
                   returned |-> FindIn(updated, objectIds) ]
  /\ UNCHANGED <<mainVars, kw, auth, conv, pair>>

NextBulk ==
  \E taskIds \in SUBSET BulkTaskIds, updateData \in BulkStatuses,
     userId \in BulkUserIds :
    BulkUpdate(taskIds, updateData, userId)

SpecBulk == InitBulk /\ [][NextBulk]_vars

\* C28: bulkUpdate modifies and returns only tasks of the calling user: a
\* task of another user keeps its status and is not in the returned list
C28_OnlyOwnTasksTouchedAndReturned ==
  bulk.pc = "returned" =>
    \A id \in BulkTaskIds :
      bulk.tasks[id].userId # bulk.userId =>
        /\ bulk.tasks[id].status = "todo"
        /\ id \notin bulk.returned

\* ---------------------------------------------------------------------
\* ConversationalAIWorkflow.processMessage
\* Confidences of this workflow are in hundredths (20 is 0.2); its Korean
\* texts are given in English.

\* an object that a template literal cannot convert to a string (its
\* toString is not callable): `${v}` is a TypeError
Unprintable == [ k |-> "object", n |-> 0, s |-> "" ]

\* `${v}` throws
TemplateThrows(v) == v.k = "object"

EmptyIntent == [ intent |-> Absent, confidence |-> Absent ]

EmptyEntities ==
  [ taskTitle |-> Absent, priority |-> Absent, dueDate |-> Absent,
    queryType |-> Absent, searchTerm |-> Absent, completeness |-> Absent ]

IntentObjects ==
  [ intent : { Absent, Str("task_creation"), Str("task_query"),
               Str("help_request"), Str("unclear"), Str("delete_all"),
               Unprintable },
    confidence : { Absent, Num(90) } ]

EntityObjects ==
  [ taskTitle : { Absent, Str(""), Str("Report"), Unprintable },
    priority : { Absent, Str("high") },
    dueDate : { Absent, Str("2026-01-01") },
    queryType : { Absent, Str("list"), Str("status"), Str("search") },
    searchTerm : { Absent, Str("budget") },
    completeness : { Absent, Num(50) } ]

IntentResponses == { Raised, Prose } \cup { Json(o) : o \in IntentObjects }

EntityResponses == { Raised, Prose } \cup { Json(o) : o \in EntityObjects }

\* the conversationHistory argument: an array, or null (the default [] only
\* replaces undefined)
ConvHistories == { "array", "null" }

ConvInitialState(history) ==
  [ userMessage |-> "add a report task",
    conversationHistory |-> history,
    currentIntent |-> Str(""),
    extractedEntities |-> EmptyEntities,
    needsClarification |-> FALSE,
    pendingActions |-> <<>>,
    confidence |-> Num(0),
    response |-> "" ]

NoConvResult ==
  [ threw |-> FALSE, response |-> "", needsClarification |-> FALSE,
    suggestedActions |-> <<>>, detectedIntent |-> Absent,
    confidence |-> Absent ]

\* understandIntent: the prompt, built before the try block, slices the
\* conversation history
UnderstandIntent(st, resp) ==
  IF st.conversationHistory = "null" THEN Throws
  ELSE IF resp.kind = "error"
  THEN Returns([ st EXCEPT !.currentIntent = Str("unclear"),
                           !.confidence = Num(20) ])
  ELSE LET intentResult == ParseJSON(resp, EmptyIntent)
       IN  Returns([ st EXCEPT
                       !.currentIntent =
                         OrElse(intentResult.intent, Str("unclear")),
                       !.confidence =
                         OrElse(intentResult.confidence, Num(30)) ])

\* extractEntities: the prompt, built before the try block, prints the intent
ExtractEntities(st, resp) ==
  IF TemplateThrows(st.currentIntent) THEN Throws
  ELSE IF resp.kind = "error"
  THEN Returns([ st EXCEPT !.extractedEntities = EmptyEntities,
                           !.confidence = Num((st.confidence.n * 8) \div 10) ])
  ELSE LET entities == ParseJSON(resp, EmptyEntities)
           sum == st.confidence.n + OrElse(entities.completeness, Num(30)).n
       IN  Returns([ st EXCEPT
                       !.extractedEntities = entities,
                       !.confidence = Num(IF sum < 100 THEN sum ELSE 100) ])

ExecuteTaskAction(st) ==
  LET entities == st.extractedEntities
  IN  IF Truthy(entities.taskTitle)
      THEN IF TemplateThrows(entities.taskTitle) THEN Throws
           ELSE Returns([ st EXCEPT !.pendingActions =
                  << "create task: " \o StringOf(entities.taskTitle) >>
                  \o (IF Truthy(entities.priority)
                      THEN << "priority: " \o StringOf(entities.priority) >>
                      ELSE <<>>)
                  \o (IF Truthy(entities.dueDate)
                      THEN << "due: " \o StringOf(entities.dueDate) >>
                      ELSE <<>>) ])
      ELSE Returns([ st EXCEPT
                       !.needsClarification = TRUE,
                       !.pendingActions =
                         << "the task title is not clear" >> ])

ExecuteQueryAction(st) ==
  LET entities == st.extractedEntities
      actions ==
        CASE entities.queryType = Str("list") -> << "list tasks" >>
          [] entities.queryType = Str("status") -> << "check task status" >>
          [] entities.queryType = Str("search") ->
               << "search " \o StringOf(entities.searchTerm) >>
          [] OTHER -> << "general task query" >>
  IN  Returns([ st EXCEPT !.pendingActions = actions ])

\* requestClarification without the request
RequestClarificationSilent(st) ==
  Returns([ st EXCEPT
              !.pendingActions =
                << "more specific information is needed",
                   "tell me what kind of task it is",
                   "when does it have to be done?" >> ])

RequestClarification(st) ==
  Returns([ st EXCEPT
              !.needsClarification = TRUE,
              !.pendingActions =
                << "more specific information is needed",
                   "tell me what kind of task it is",
                   "when does it have to be done?" >> ])

ProvideHelp(st) ==
  Returns([ st EXCEPT
              !.pendingActions =
                << "here are the available commands",
                   "tasks can be created, queried and changed",
                   "just say it in natural language" >> ])

\* routeAndExecute: its log line prints the intent
RouteAndExecute(st) ==
  IF TemplateThrows(st.currentIntent) THEN Throws
  ELSE CASE st.currentIntent = Str("task_creation") -> ExecuteTaskAction(st)
         [] st.currentIntent = Str("task_query") -> ExecuteQueryAction(st)
         [] st.currentIntent = Str("help_request") -> ProvideHelp(st)
         [] OTHER -> RequestClarification(st)

RECURSIVE JoinWith(_, _)
\* actions.join(sep)
JoinWith(actions, sep) ==
  IF actions = <<>> THEN ""
  ELSE IF Len(actions) = 1 THEN actions[1]
  ELSE actions[1] \o sep \o JoinWith(Tail(actions), sep)

GenerateResponse(st) ==
  LET response ==
        IF st.needsClarification
        THEN "please be more specific. " \o JoinWith(st.pendingActions, " ")
        ELSE IF Len(st.pendingActions) > 0
        THEN "I will do the following: " \o JoinWith(st.pendingActions, ", ")
        ELSE "the request was processed."
  IN  Returns([ st EXCEPT !.response = response ])

\* what processMessage returns after its four stages
ConvResult(st) ==
  [ threw |-> FALSE,
    response |-> IF st.response # "" THEN st.response
                 ELSE "sorry, an error occurred while processing",
    needsClarification |-> st.needsClarification,
    suggestedActions |-> st.pendingActions,
    detectedIntent |-> st.currentIntent,
    confidence |-> st.confidence ]

\* what the catch block of processMessage returns
ConvCaught ==
  [ threw |-> FALSE,
    response |-> "sorry, there was a problem processing the request",
    needsClarification |-> TRUE,
    suggestedActions |-> << "please try again" >>,
    detectedIntent |-> Str("error"),
    confidence |-> Num(10) ]

InitConv ==
  /\ MainIdle
  /\ conv \in { [ pc |-> "start", state |-> ConvInitialState(h),
                  result |-> NoConvResult, escaped |-> "none" ] :
                h \in ConvHistories }
  /\ kw = Idle
  /\ auth = Idle
  /\ bulk = Idle
  /\ pair = Idle

\* a stage of processMessage has ended with outcome o: go on to pc value
\* next, or take the catch block
ConvStep(name, o, next) ==
  /\ IF o.threw
     THEN conv' = [ conv EXCEPT !.pc = "returned", !.result = ConvCaught,
                                !.escaped = name ]
     ELSE conv' = [ conv EXCEPT !.pc = next, !.state = o.value ]
  /\ UNCHANGED <<mainVars, kw, auth, bulk, pair>>

ConvUnderstand ==
  /\ conv.pc = "start"
  /\ \E resp \in IntentResponses :
       ConvStep("understandIntent", UnderstandIntent(conv.state, resp),
                "understood")

ConvExtract ==
  /\ conv.pc = "understood"
  /\ \E resp \in EntityResponses :
       ConvStep("extractEntities", ExtractEntities(conv.state, resp),
                "extracted")

ConvRoute ==
  /\ conv.pc = "extracted"
  /\ ConvStep("routeAndExecute", RouteAndExecute(conv.state), "routed")

ConvRespond ==
  /\ conv.pc = "routed"
  /\ LET o == GenerateResponse(conv.state)
     IN  conv' = [ conv EXCEPT !.pc = "returned", !.state = o.value,
                               !.result = ConvResult(o.value) ]
  /\ UNCHANGED <<mainVars, kw, auth, bulk, pair>>

NextConv == ConvUnderstand \/ ConvExtract \/ ConvRoute \/ ConvRespond

SpecConv == InitConv /\ [][NextConv]_vars

\* the intents that routeAndExecute knows
KnownIntents ==
  { Str("task_creation"), Str("task_query"), Str("help_request") }

\* C29: processMessage does not throw and returns a non-empty response;
\* needsClarification is true when the detected intent is not a known one
\* and when it is task_creation and no title was extracted, and false for
\* task_query, help_request and task_creation with a title
C29_ProcessMessageTotalAndClarifies ==
  conv.pc = "returned" =>
    LET r == conv.result
        titled == Truthy(conv.state.extractedEntities.taskTitle)
    IN  /\ ~r.threw
        /\ r.response # ""
        /\ r.detectedIntent \notin KnownIntents => r.needsClarification
        /\ (r.detectedIntent = Str("task_creation") /\ ~titled) =>
              r.needsClarification
        /\ r.detectedIntent \in { Str("task_query"), Str("help_request") } =>
              ~r.needsClarification
        /\ (r.detectedIntent = Str("task_creation") /\ titled) =>
              ~r.needsClarification

\* a message whose intent the model names with a word no route knows
C29_Witness ==
  /\ conv.pc = "returned"
  /\ conv.escaped = "none"
  /\ conv.result.detectedIntent = Str("delete_all")
  /\ conv.result.needsClarification
  /\ conv.result.response # ""

\* ---------------------------------------------------------------------
\* Two calls of execute in flight on one workflow instance, interleaved at
\* their stages

PairRuns == { 1, 2 }

PairInputs == { "urgent fix #bug", Repeat("x", TitleLimit + MaxOver) }

\* responses of the extraction call: a failure, prose, a task that needs
\* review, and an object whose urgency makes the next prompt throw
PairExtractionResponses ==
  { Raised, Prose,
    Json([ EmptyInfo EXCEPT !.title = Str("Fix"), !.complexity = Num(4),
                            !.urgency = Arr(1), !.confidence = Num(2) ]),
    Json([ EmptyInfo EXCEPT !.title = Num(7), !.urgency = Str("asap") ]) }

PairAnalysisResponses ==
  { Raised,
    Json([ priority |-> Str("urgent"), confidence |-> Num(2) ]),
    Json([ priority |-> Num(1), confidence |-> Absent ]) }

\* the call frame of a run that has just entered execute
PairNewRun(in) ==
  [ input |-> in, pc |-> "start", state |-> InitialState(in),
    locals |-> NoLocals, result |-> NoResult, responses |-> <<>> ]

InitPair ==
  /\ MainIdle
  /\ pair \in { [ pc |-> "running", wf |-> w,
                  runs |-> [ i \in PairRuns |-> PairNewRun(ins[i]) ],
                  order |-> <<>> ] :
                w \in { "advanced", "creation" },
                ins \in [ PairRuns -> PairInputs ] }
  /\ kw = Idle
  /\ auth = Idle
  /\ bulk = Idle
  /\ conv = Idle

\* the frame every run works on when the pipeline state is a field of the
\* workflow instance
PairFrameShared(runs, i) == runs[1]

\* the frame run i works on: initialState, state, extractedInfo and analysis
\* are local variables of its call of execute
PairFrameOf(runs, i) == runs[i]

\* a stage of run i of AdvancedTaskCreationWorkflow.execute has ended with
\* outcome o
PairAdvancedStep(i, o, next, resp) ==
  LET f == PairFrameOf(pair.runs, i)
      run == pair.runs[i]
      after ==
        IF o.threw
        THEN [ run EXCEPT !.pc = AdvancedCaught(f.input).pc,
                          !.result = AdvancedCaught(f.input).result,
                          !.responses = @ \o resp ]
        ELSE [ run EXCEPT !.pc = next,
                          !.state = o.value,
                          !.result = IF next = "returned"
                                     THEN AdvancedResult(o.value) ELSE @,
                          !.responses = @ \o resp ]
  IN  /\ pair' = [ pair EXCEPT !.runs[i] = after,
                               !.order = Append(@, i) ]
      /\ UNCHANGED <<mainVars, kw, auth, bulk, conv>>

PairAdvExtract(i) ==
  /\ pair.pc = "running" /\ pair.wf = "advanced"
  /\ pair.runs[i].pc = "start"
  /\ \E resp \in PairExtractionResponses :
       PairAdvancedStep(i,
         ExtractInformation(PairFrameOf(pair.runs, i).state, resp),
         "extracted", << resp >>)

PairAdvAnalyze(i) ==
  /\ pair.pc = "running" /\ pair.wf = "advanced"
  /\ pair.runs[i].pc = "extracted"
  /\ \E resp \in PairAnalysisResponses :
       PairAdvancedStep(i,
         AnalyzePriority(PairFrameOf(pair.runs, i).state, resp),
         "prioritized", << resp >>)

PairAdvDetect(i) ==
  /\ pair.pc = "running" /\ pair.wf = "advanced"
  /\ pair.runs[i].pc = "prioritized"
  /\ PairAdvancedStep(i, DetectConflicts(PairFrameOf(pair.runs, i).state),
                      "checked", <<>>)

PairAdvFinalize(i) ==
  /\ pair.pc = "running" /\ pair.wf = "advanced"
  /\ pair.runs[i].pc = "checked"
  /\ PairAdvancedStep(i,
       ValidateAndFinalize(PairFrameOf(pair.runs, i).state),
       "returned", <<>>)

\* a stage of run i of TaskCreationWorkflow.execute has ended with outcome o
PairCreationStep(i, name, o, next, resp) ==
  LET f == PairFrameOf(pair.runs, i)
      run == pair.runs[i]
      after ==
        IF o.threw
        THEN [ run EXCEPT !.pc = CreationCaught(f.input).pc,
                          !.result = CreationCaught(f.input).result,
                          !.locals = NoLocals,
                          !.responses = @ \o resp ]
        ELSE [ run EXCEPT
                 !.pc = next,
                 !.locals =
                   CASE name = "extract" ->
                          [ f.locals EXCEPT !.extractedInfo = o.value ]
                     [] name = "analyze" ->
                          [ f.locals EXCEPT !.analysis = o.value ]
                     [] OTHER -> NoLocals,
                 !.result = IF next = "returned" THEN o.value ELSE @,
                 !.responses = @ \o resp ]
  IN  /\ pair' = [ pair EXCEPT !.runs[i] = after,
                               !.order = Append(@, i) ]
      /\ UNCHANGED <<mainVars, kw, auth, bulk, conv>>

PairCreExtract(i) ==
  /\ pair.pc = "running" /\ pair.wf = "creation"
  /\ pair.runs[i].pc = "start"
  /\ \E resp \in PairExtractionResponses :
       PairCreationStep(i, "extract",
         ExtractDetailedInformation(PairFrameOf(pair.runs, i).input, resp),
         "extracted", << resp >>)

PairCreAnalyze(i) ==
  /\ pair.pc = "running" /\ pair.wf = "creation"
  /\ pair.runs[i].pc = "extracted"
  /\ \E resp \in PairAnalysisResponses :
       PairCreationStep(i, "analyze",
         AnalyzeTaskComplexity(
           PairFrameOf(pair.runs, i).locals.extractedInfo, resp),
         "prioritized", << resp >>)

PairCreValidate(i) ==
  /\ pair.pc = "running" /\ pair.wf = "creation"
  /\ pair.runs[i].pc = "prioritized"
  /\ PairCreationStep(i, "finalize",
       ValidateAndSuggest(PairFrameOf(pair.runs, i).locals.extractedInfo,
                          PairFrameOf(pair.runs, i).locals.analysis),
       "returned", <<>>)

NextPair ==
  \E i \in PairRuns :
    \/ PairAdvExtract(i)
    \/ PairAdvAnalyze(i)
    \/ PairAdvDetect(i)
    \/ PairAdvFinalize(i)
    \/ PairCreExtract(i)
    \/ PairCreAnalyze(i)
    \/ PairCreValidate(i)

SpecPair == InitPair /\ [][NextPair]_vars

\* the k-th response of rs; a call that was never issued has none
ResponseAt(rs, k) == IF k <= Len(rs) THEN rs[k] ELSE Raised

\* what AdvancedTaskCreationWorkflow.execute returns, running alone, for
\* input in and completion responses rs
SoloAdvanced(in, rs) ==
  LET o1 == ExtractInformation(InitialState(in), ResponseAt(rs, 1))
  IN  IF o1.threw THEN AdvancedCaught(in).result
      ELSE LET o2 == AnalyzePriority(o1.value, ResponseAt(rs, 2))
           IN  IF o2.threw THEN AdvancedCaught(in).result
               ELSE LET o3 == DetectConflicts(o2.value)
                    IN  IF o3.threw THEN AdvancedCaught(in).result
                        ELSE LET o4 == ValidateAndFinalize(o3.value)
                             IN  IF o4.threw THEN AdvancedCaught(in).result
                                 ELSE AdvancedResult(o4.value)

\* what TaskCreationWorkflow.execute returns, running alone
SoloCreation(in, rs) ==
  LET o1 == ExtractDetailedInformation(in, ResponseAt(rs, 1))
  IN  IF o1.threw THEN CreationCaught(in).result
      ELSE LET o2 == AnalyzeTaskComplexity(o1.value, ResponseAt(rs, 2))
           IN  IF o2.threw THEN CreationCaught(in).result
               ELSE LET o3 == ValidateAndSuggest(o1.value, o2.value)
                    IN  IF o3.threw THEN CreationCaught(in).result
                        ELSE o3.value

\* every returned run has the result of a run alone
PairResultsAreSolo ==
  pair.pc = "running" =>
    \A i \in PairRuns :
      pair.runs[i].pc = "returned" =>
        pair.runs[i].result =
          IF pair.wf = "advanced"
          THEN SoloAdvanced(pair.runs[i].input, pair.runs[i].responses)
          ELSE SoloCreation(pair.runs[i].input, pair.runs[i].responses)

\* a step of one run leaves the other run's frame as it was
PairStepTouchesOneRun ==
  (pair.pc = "running" /\ pair'.pc = "running") =>
    \A i, j \in PairRuns :
      (i # j /\ pair'.runs[i] # pair.runs[i]) =>
         pair'.runs[j] = pair.runs[j]

\* C21: two runs of execute interleaved on one workflow instance do not
\* affect each other: each returns what it would return alone for its input
\* and responses, and no step of a run changes the other run's state
C21_RunsIndependent ==
  /\ []PairResultsAreSolo
  /\ [][PairStepTouchesOneRun]_vars

\* two runs with different inputs, their stages alternating, both returned
\* with different results
C21_Witness ==
  /\ pair.pc = "running"
  /\ pair.wf = "advanced"
  /\ pair.order = << 1, 2, 1, 2, 1, 2, 1, 2 >>
  /\ pair.runs[1].pc = "returned" /\ pair.runs[2].pc = "returned"
  /\ pair.runs[1].input # pair.runs[2].input
  /\ pair.runs[1].result # pair.runs[2].result
  /\ pair.runs[1].result.workflowPath # "error"

====
